---- MODULE Spec2Model ----
(***************************************************************************)
(* Model of the newsletter sender (src/unnamed/part_000, the variant with  *)
(* address validation and per-message fallback; the older variant          *)
(* src/.github/scripts/send-newsletter.js shares sendBatch, fetchJson and  *)
(* the batch loop).                                                        *)
(*                                                                         *)
(* The program is single threaded.  Its state is the module-level          *)
(* configuration, the locals of main(), the locals of the running          *)
(* sendBatch / sendSingle call and the position (pc) of the one thread of  *)
(* control.  The environment (directory, e-mail provider, network, timers) *)
(* answers requests nondeterministically.                                  *)
(***************************************************************************)
EXTENDS Integers, Sequences, FiniteSets, TLC

VARIABLES
    env,              \* process.env: which required variables are set
    templateExists,   \* fs.existsSync(emailPath)
    pc,               \* position of the thread of control
    exitCode,         \* process exit status, meaningful when pc = "exited"
    allSubscribers,   \* main: subResp.data
    valid,            \* main: subscribers passing isValidEmail
    allEmails,        \* main: payloads built from valid
    sent, failed,     \* main: counters
    i,                \* main: batch loop index (0-based offset)
    batch,            \* main: allEmails.slice(i, i + BATCH_SIZE)
    j,                \* main: 0-based position of the for-of over batch
    result,           \* main: value returned by sendBatch
    r,                \* main: value returned by sendSingle
    maxRetries,       \* sendBatch / sendSingle: parameter
    attempt,          \* sendBatch / sendSingle: loop variable
    sleepMs,          \* duration of the pending setTimeout, 0 when none
    inflight,         \* number of HTTP requests issued and not yet answered
    \* ---- observation of the run (history) ----
    requests,         \* requests issued by the current sendBatch/sendSingle call
    responses,        \* statuses received by the current call, in order
    lastData,         \* body of the last response received by sendBatch
    waits,            \* backoff sleeps of the current call, in order
    dirRequests,      \* requests issued to the directory
    dirStatus,        \* status the directory answered with, 0 before its answer
    providerContacted,\* TRUE once any request was issued to the provider
    batchLog,         \* the batches passed to sendBatch, in order
    batchOutcome,     \* success flag of every sendBatch that returned to main
    singleLog,        \* 1-based index in allEmails of every sendSingle call
    pauses,           \* number of 1000 ms inter-batch pauses started
    fallbackPauses    \* number of 600 ms pauses started

vars == <<env, templateExists, pc, exitCode, allSubscribers, valid, allEmails,
          sent, failed, i, batch, j, result, r, maxRetries, attempt, sleepMs,
          inflight, requests, responses, lastData, waits, dirRequests,
          dirStatus, providerContacted, batchLog, batchOutcome, singleLog, pauses,
          fallbackPauses>>

envVars   == <<env, templateExists>>
listVars  == <<allSubscribers, valid, allEmails>>
countVars == <<sent, failed>>
histVars  == <<dirRequests, dirStatus, batchLog, batchOutcome, singleLog, pauses,
               fallbackPauses>>

----------------------------------------------------------------------------
(* Bounds of the model *)

MaxSubscribers == 120     \* longest directory answer
MaxShortList == 2         \* directory answers up to this length are all enumerated
MaxRetriesBound == 4      \* largest maxRetries tried when a send is called directly
InvalidEvery == 7         \* in the mixed long lists every 7th address is invalid

(* Program constants *)

BATCH_SIZE == 50
DefaultMaxRetries == 3
BatchBackoffMs == 3000
SingleBackoffMs == 2000
FallbackPauseMs == 600
BatchPauseMs == 1000
RateLimited == 429
DirectoryOK == 200

Min(a, b) == IF a < b THEN a ELSE b

----------------------------------------------------------------------------
(* Inputs *)

RequiredEnv == {"RESEND_API_KEY", "WORKER_URL", "WORKER_SECRET", "EPISODE_DATE"}

\* Statuses the provider may answer with (both ends of the 2xx range, 429, others).
ProviderStatuses == {200, 299, 300, 429, 500}

\* Statuses the directory may answer with.
DirectoryStatuses == {200, 201, 404, 500}

\* Response bodies of the provider.
Bodies == {"body-A", "body-B"}

MaxRetriesSentinel == "Max retries exceeded"

\* Addresses the directory may return.
Pool == {"a@b.co", "c@d.e", "no-at-sign", "@nodomain", "user@nodot", "a b@c.d"}

\* The characters of each address of the pool.
Chars(email) ==
    CASE email = "a@b.co"     -> <<"a", "@", "b", ".", "c", "o">>
      [] email = "c@d.e"      -> <<"c", "@", "d", ".", "e">>
      [] email = "no-at-sign" -> <<"n", "o", "-", "a", "t", "-", "s", "i", "g", "n">>
      [] email = "@nodomain"  -> <<"@", "n", "o", "d", "o", "m", "a", "i", "n">>
      [] email = "user@nodot" -> <<"u", "s", "e", "r", "@", "n", "o", "d", "o", "t">>
      [] email = "a b@c.d"    -> <<"a", " ", "b", "@", "c", ".", "d">>

\* [^\s@]
IsPlain(ch) == ch \notin {" ", "@"}

\* [^\s@]+ matches c[a..b]
AllPlain(c, a, b) == a <= b /\ \A k \in a..b : IsPlain(c[k])

\* /^[^\s@]+@[^\s@]+\.[^\s@]+$/.test(email)
isValidEmail(email) ==
    LET c == Chars(email)
        n == Len(c)
    IN \E p \in 1..n, q \in 1..n :
          /\ p < q
          /\ c[p] = "@"
          /\ c[q] = "."
          /\ AllPlain(c, 1, p - 1)
          /\ AllPlain(c, p + 1, q - 1)
          /\ AllPlain(c, q + 1, n)

Subscriber(email) == [email |-> email]

ShortLists ==
    UNION {[1..n -> {Subscriber(e) : e \in Pool}] : n \in 0..MaxShortList}


LongList(n, mixed) ==
    [k \in 1..n |->
        Subscriber(IF mixed /\ k % InvalidEvery = 0 THEN "user@nodot"
                   ELSE IF k % 2 = 0 THEN "a@b.co" ELSE "c@d.e")]

\* Long answers: exactly one batch, one batch and one message, two batches
\* once the invalid addresses are dropped, and three batches.
LongLists ==
    {LongList(BATCH_SIZE, FALSE), LongList(BATCH_SIZE + 1, FALSE),
     LongList(2 * BATCH_SIZE, TRUE), LongList(MaxSubscribers, FALSE)}

\* The bodies the directory may answer with.
DirectoryLists == ShortLists \cup LongLists

----------------------------------------------------------------------------
(* Values *)

NoResult == [none |-> TRUE]

\* buildEmailPayload: the payload is addressed to the subscriber's address
\* (from, subject and html do not influence delivery control flow).
buildEmailPayload(sub) == [to |-> sub.email]

\* Array.prototype.map with buildEmailPayload
MapPayload(seq) == [k \in 1..Len(seq) |-> buildEmailPayload(seq[k])]

\* Array.prototype.slice(from, to), 0-based, end exclusive
Slice(seq, from, to) == SubSeq(seq, from + 1, Min(to, Len(seq)))

\* A filter that keeps every subscriber (the older variant has none).
IsValidSubscriberAny(s) == TRUE

\* line 144: s => isValidEmail(s.email)
IsValidSubscriber(s) == isValidEmail(s.email)

\* A success range that includes 300.
Is2xxInclusive(status) == status >= 200 /\ status <= 300

\* resp.status >= 200 && resp.status < 300
Is2xx(status) == status >= 200 /\ status < 300

----------------------------------------------------------------------------
(* Initial state: the process has started, nothing has run yet. *)

InitCommon ==
    /\ exitCode = 0
    /\ allSubscribers = <<>> /\ valid = <<>> /\ allEmails = <<>>
    /\ sent = 0 /\ failed = 0 /\ i = 0 /\ j = 0
    /\ batch = <<>>
    /\ result = NoResult /\ r = NoResult
    /\ maxRetries = DefaultMaxRetries
    /\ attempt = 0
    /\ sleepMs = 0
    /\ inflight = 0
    /\ requests = 0 /\ responses = <<>> /\ lastData = "none" /\ waits = <<>>
    /\ dirRequests = 0
    /\ dirStatus = 0
    /\ providerContacted = FALSE
    /\ batchLog = <<>> /\ batchOutcome = <<>> /\ singleLog = <<>>
    /\ pauses = 0
    /\ fallbackPauses = 0

Init ==
    /\ env \in [RequiredEnv -> BOOLEAN]
    /\ templateExists \in BOOLEAN
    /\ pc = "boot"
    /\ InitCommon

----------------------------------------------------------------------------
(* Process exit *)

\* process.exit(code), or the event loop running empty (code 0)
Exit(code) ==
    /\ pc' = "exited"
    /\ exitCode' = code

----------------------------------------------------------------------------
(* Module top level and the start of main() *)

\* A check that forgets the run identifier.
ConfigPresentWithoutDate == \A k \in RequiredEnv \ {"EPISODE_DATE"} : env[k]

\* line 9: every required variable is set
ConfigPresent == \A k \in RequiredEnv : env[k]

\* A missing variable treated as a failure.
ConfigMissingExitsOne ==
    /\ pc = "boot"
    /\ ~ConfigPresent
    /\ Exit(1)
    /\ UNCHANGED <<envVars, listVars, countVars, i, batch, j, result, r,
                   maxRetries, attempt, sleepMs, inflight, requests, responses,
                   lastData, waits, providerContacted, histVars>>

\* lines 9-12: a required variable is missing
ConfigMissing ==
    /\ pc = "boot"
    /\ ~ConfigPresent
    /\ Exit(0)
    /\ UNCHANGED <<envVars, listVars, countVars, i, batch, j, result, r,
                   maxRetries, attempt, sleepMs, inflight, requests, responses,
                   lastData, waits, providerContacted, histVars>>

\* A missing template treated as a skip.
TemplateMissingExitsZero ==
    /\ pc = "boot"
    /\ ConfigPresent
    /\ ~templateExists
    /\ Exit(0)
    /\ UNCHANGED <<envVars, listVars, countVars, i, batch, j, result, r,
                   maxRetries, attempt, sleepMs, inflight, requests, responses,
                   lastData, waits, providerContacted, histVars>>

\* lines 14-18: the template file does not exist
TemplateMissing ==
    /\ pc = "boot"
    /\ ConfigPresent
    /\ ~templateExists
    /\ Exit(1)
    /\ UNCHANGED <<envVars, listVars, countVars, i, batch, j, result, r,
                   maxRetries, attempt, sleepMs, inflight, requests, responses,
                   lastData, waits, providerContacted, histVars>>

\* lines 19, 126-133: template read, main() issues the directory request
MainStart ==
    /\ pc = "boot"
    /\ ConfigPresent
    /\ templateExists
    /\ pc' = "fetchSubscribers"
    /\ inflight' = inflight + 1
    /\ dirRequests' = dirRequests + 1
    /\ UNCHANGED <<envVars, exitCode, listVars, countVars, i, batch, j, result, r,
                   maxRetries, attempt, sleepMs, requests, responses,
                   lastData, waits, providerContacted, dirStatus, batchLog,
                   batchOutcome, singleLog, pauses, fallbackPauses>>

\* A check that treats only error statuses as failures.
DirectoryFailedOnErrorsOnly(status) == status >= 400

\* line 135: subResp.status !== 200
DirectoryFailed(status) == status # DirectoryOK

\* The older variant's check: the directory returned no subscriber at all.
NoSubscribers(all, v) == Len(all) = 0

\* line 150: valid.length === 0
NoneValid(all, v) == Len(v) = 0

\* lines 135-158: the directory answered
DirectoryResponse(status, data) ==
    /\ pc = "fetchSubscribers"
    /\ inflight' = inflight - 1
    /\ dirStatus' = status
    /\ IF DirectoryFailed(status)
       THEN /\ Exit(1)
            /\ UNCHANGED <<listVars, countVars>>
       ELSE LET v == SelectSeq(data, IsValidSubscriber)
            IN /\ allSubscribers' = data
               /\ valid' = v
               /\ IF NoneValid(data, v)
                  THEN /\ Exit(0)
                       /\ UNCHANGED <<allEmails, countVars>>
                  ELSE /\ allEmails' = MapPayload(v)
                       /\ sent' = 0
                       /\ failed' = 0
                       /\ pc' = "loop"
                       /\ UNCHANGED exitCode
    /\ UNCHANGED <<envVars, i, batch, j, result, r, maxRetries, attempt, sleepMs,
                   requests, responses, lastData, waits, providerContacted,
                   dirRequests, batchLog, batchOutcome, singleLog, pauses, fallbackPauses>>

----------------------------------------------------------------------------
(* Delivery client: sendBatch *)

\* A backoff that does not grow with the attempt.
BatchBackoffFlat(att) == BatchBackoffMs

\* line 77: const backoff = attempt * 3000
BatchBackoff(att) == att * BatchBackoffMs

\* The batch backoff used for single sends.
SingleBackoffAsBatch(att) == att * BatchBackoffMs

\* line 104: const backoff = attempt * 2000
SingleBackoff(att) == att * SingleBackoffMs

\* lines 76, 103: resp.status === 429 && attempt < maxRetries
ShouldRetry(status, att, mr) == status = RateLimited /\ att < mr

\* line 83: { success: false, status: resp.status, data: resp.data }
BatchFailure(status, data) == [success |-> FALSE, status |-> status, data |-> data]

\* line 85: the value returned when the loop ends without a return
BatchExhausted == [success |-> FALSE, status |-> RateLimited, data |-> MaxRetriesSentinel]

\* line 73: { success: true, data: resp.data }
BatchSuccess(data) == [success |-> TRUE, data |-> data]

\* line 100
SingleSuccess == [success |-> TRUE]

\* line 109
SingleFailure(status) == [success |-> FALSE, status |-> status]

\* line 111
SingleExhausted == [success |-> FALSE, status |-> RateLimited]

\* lines 62-70, 85: the head of sendBatch's loop with attempt = att, after
\* reqs requests of this call: issue the next request, or leave the loop.
SendBatchLoop(att, mr, reqs) ==
    /\ attempt' = att
    /\ IF att <= mr
       THEN /\ pc' = "batchWait"
            /\ inflight' = inflight + 1
            /\ requests' = reqs + 1
            /\ providerContacted' = TRUE
            /\ result' = NoResult
       ELSE /\ pc' = "batchReturned"
            /\ result' = BatchExhausted
            /\ requests' = reqs
            /\ UNCHANGED <<inflight, providerContacted>>

\* lines 72-83: the provider answered the batch request
BatchResponse(status, data) ==
    /\ pc = "batchWait"
    /\ inflight' = inflight - 1
    /\ responses' = Append(responses, status)
    /\ lastData' = data
    /\ IF Is2xx(status)
       THEN /\ pc' = "batchReturned"
            /\ result' = BatchSuccess(data)
            /\ UNCHANGED <<sleepMs, waits>>
       ELSE IF ShouldRetry(status, attempt, maxRetries)
       THEN /\ pc' = "batchBackoff"
            /\ sleepMs' = BatchBackoff(attempt)
            /\ waits' = Append(waits, BatchBackoff(attempt))
            /\ UNCHANGED result
       ELSE /\ pc' = "batchReturned"
            /\ result' = BatchFailure(status, data)
            /\ UNCHANGED <<sleepMs, waits>>
    /\ UNCHANGED <<envVars, exitCode, listVars, countVars, i, batch, j, r, maxRetries,
                   attempt, requests, providerContacted, histVars>>

\* The backoff sleep is not awaited: the next request is issued while the
\* timer is still pending.
BatchBackoffNotAwaited ==
    /\ pc = "batchBackoff"
    /\ SendBatchLoop(attempt + 1, maxRetries, requests)
    /\ UNCHANGED <<envVars, exitCode, listVars, countVars, i, batch, j, r, maxRetries,
                   sleepMs, responses, lastData, waits, histVars>>

\* lines 79-80, 62: the backoff timer fired; continue with attempt + 1
BatchBackoffDone ==
    /\ pc = "batchBackoff"
    /\ sleepMs' = 0
    /\ SendBatchLoop(attempt + 1, maxRetries, requests)
    /\ UNCHANGED <<envVars, exitCode, listVars, countVars, i, batch, j, r, maxRetries,
                   responses, lastData, waits, histVars>>

----------------------------------------------------------------------------
(* Delivery client: sendSingle *)

\* lines 89-97, 111: the head of sendSingle's loop with attempt = att
SendSingleLoop(att, mr, reqs) ==
    /\ attempt' = att
    /\ IF att <= mr
       THEN /\ pc' = "singleWait"
            /\ inflight' = inflight + 1
            /\ requests' = reqs + 1
            /\ providerContacted' = TRUE
            /\ r' = NoResult
       ELSE /\ pc' = "singleReturned"
            /\ r' = SingleExhausted
            /\ requests' = reqs
            /\ UNCHANGED <<inflight, providerContacted>>

\* lines 99-109: the provider answered the single request (the body is not read)
SingleResponse(status) ==
    /\ pc = "singleWait"
    /\ inflight' = inflight - 1
    /\ responses' = Append(responses, status)
    /\ IF Is2xx(status)
       THEN /\ pc' = "singleReturned"
            /\ r' = SingleSuccess
            /\ UNCHANGED <<sleepMs, waits>>
       ELSE IF ShouldRetry(status, attempt, maxRetries)
       THEN /\ pc' = "singleBackoff"
            /\ sleepMs' = SingleBackoff(attempt)
            /\ waits' = Append(waits, SingleBackoff(attempt))
            /\ UNCHANGED r
       ELSE /\ pc' = "singleReturned"
            /\ r' = SingleFailure(status)
            /\ UNCHANGED <<sleepMs, waits>>
    /\ UNCHANGED <<envVars, exitCode, listVars, countVars, i, batch, j, result,
                   maxRetries, attempt, requests, lastData, providerContacted,
                   histVars>>

\* lines 105-106, 89: the backoff timer fired; continue with attempt + 1
SingleBackoffDone ==
    /\ pc = "singleBackoff"
    /\ sleepMs' = 0
    /\ SendSingleLoop(attempt + 1, maxRetries, requests)
    /\ UNCHANGED <<envVars, exitCode, listVars, countVars, i, batch, j, result,
                   maxRetries, responses, lastData, waits, histVars>>

----------------------------------------------------------------------------
(* main(): the delivery loop *)

\* line 161: the loop condition i < allEmails.length
MoreBatches(idx, len) == idx < len

\* line 190: i + BATCH_SIZE < allEmails.length
PauseBeforeNext(idx, len) == idx + BATCH_SIZE < len

\* A loop increment that does not advance.
NextIndexStuck(idx) == idx

\* line 161: i += BATCH_SIZE
NextIndex(idx) == idx + BATCH_SIZE

\* line 162: allEmails.slice(i, i + BATCH_SIZE)
BatchAt(emails, idx) == Slice(emails, idx, idx + BATCH_SIZE)

\* line 196 and the end of main: process.exit(1) if failed > 0, else code 0
FinalExitCode(f) == IF f > 0 THEN 1 ELSE 0

\* lines 161-167 and 195-196: the loop condition; either the next batch is
\* sliced and passed to sendBatch, or the summary is printed and main ends.
Loop ==
    /\ pc = "loop"
    /\ IF MoreBatches(i, Len(allEmails))
       THEN /\ batch' = BatchAt(allEmails, i)
            /\ batchLog' = Append(batchLog, BatchAt(allEmails, i))
            /\ maxRetries' = DefaultMaxRetries
            /\ SendBatchLoop(1, DefaultMaxRetries, 0)
            /\ UNCHANGED exitCode
       ELSE /\ Exit(FinalExitCode(failed))
            /\ UNCHANGED <<batch, batchLog, maxRetries, attempt, inflight, requests,
                           providerContacted, result>>
    /\ UNCHANGED <<envVars, listVars, countVars, i, j, r, sleepMs, responses,
                   lastData, waits, dirRequests, dirStatus, batchOutcome, singleLog,
                   pauses, fallbackPauses>>

\* A count that assumes every batch is full.
SentAfterBatchFull(s, b) == s + BATCH_SIZE

\* line 170: sent += batch.length
SentAfterBatch(s, b) == s + Len(b)

\* The whole batch counted as failed before its fallback sends are counted.
AfterSendBatchCountsFailedBatch ==
    /\ pc = "batchReturned"
    /\ batchOutcome' = Append(batchOutcome, result.success)
    /\ IF result.success
       THEN /\ sent' = SentAfterBatch(sent, batch)
            /\ pc' = "afterBatch"
            /\ UNCHANGED <<j, failed>>
       ELSE /\ j' = 0
            /\ failed' = failed + Len(batch)
            /\ pc' = "fallbackLoop"
            /\ UNCHANGED sent
    /\ result' = NoResult
    /\ attempt' = 0
    /\ requests' = 0 /\ responses' = <<>> /\ lastData' = "none" /\ waits' = <<>>
    /\ UNCHANGED <<envVars, exitCode, listVars, i, batch, r, maxRetries,
                   sleepMs, inflight, providerContacted, dirRequests,
                   dirStatus, batchLog, singleLog, pauses, fallbackPauses>>

\* lines 169-177: sendBatch returned to main
AfterSendBatch ==
    /\ pc = "batchReturned"
    /\ batchOutcome' = Append(batchOutcome, result.success)
    /\ IF result.success
       THEN /\ sent' = SentAfterBatch(sent, batch)
            /\ pc' = "afterBatch"
            /\ UNCHANGED j
       ELSE /\ j' = 0
            /\ pc' = "fallbackLoop"
            /\ UNCHANGED sent
    \* result is not read after line 176 and the call's frame is gone; the
    \* observations of the call end with it
    /\ result' = NoResult
    /\ attempt' = 0
    /\ requests' = 0 /\ responses' = <<>> /\ lastData' = "none" /\ waits' = <<>>
    /\ UNCHANGED <<envVars, exitCode, listVars, failed, i, batch, r, maxRetries,
                   sleepMs, inflight, providerContacted, dirRequests,
                   dirStatus, batchLog, singleLog, pauses, fallbackPauses>>

\* lines 177-178: the for-of over batch; the next message is passed to
\* sendSingle, or the fallback ends
FallbackLoop ==
    /\ pc = "fallbackLoop"
    /\ IF j < Len(batch)
       THEN /\ singleLog' = Append(singleLog, i + j + 1)
            /\ maxRetries' = DefaultMaxRetries
            /\ SendSingleLoop(1, DefaultMaxRetries, 0)
       ELSE /\ pc' = "afterBatch"
            /\ UNCHANGED <<singleLog, maxRetries, attempt, inflight, requests,
                           providerContacted, r>>
    /\ UNCHANGED <<envVars, exitCode, listVars, countVars, i, batch, j, result,
                   sleepMs, responses, lastData, waits, dirRequests, dirStatus,
                   batchLog, batchOutcome, pauses, fallbackPauses>>

\* The 600 ms pause taken only after a successful single send.
AfterSendSinglePauseOnSuccess ==
    /\ pc = "singleReturned"
    /\ IF r.success
       THEN /\ sent' = sent + 1
            /\ sleepMs' = FallbackPauseMs
            /\ fallbackPauses' = fallbackPauses + 1
            /\ pc' = "pause600"
            /\ UNCHANGED <<failed, j>>
       ELSE /\ failed' = failed + 1
            /\ j' = j + 1
            /\ pc' = "fallbackLoop"
            /\ UNCHANGED <<sent, sleepMs, fallbackPauses>>
    /\ r' = NoResult
    /\ attempt' = 0
    /\ requests' = 0 /\ responses' = <<>> /\ waits' = <<>>
    /\ UNCHANGED <<envVars, exitCode, listVars, i, batch, result, maxRetries,
                   inflight, lastData, providerContacted, dirRequests, dirStatus,
                   batchLog, batchOutcome, singleLog, pauses>>

\* lines 179-186: sendSingle returned to main; count it and start the 600 ms pause
AfterSendSingle ==
    /\ pc = "singleReturned"
    /\ IF r.success
       THEN sent' = sent + 1 /\ UNCHANGED failed
       ELSE failed' = failed + 1 /\ UNCHANGED sent
    /\ sleepMs' = FallbackPauseMs
    /\ fallbackPauses' = fallbackPauses + 1
    /\ pc' = "pause600"
    \* r is not read after line 184 and the call's frame is gone; the
    \* observations of the call end with it
    /\ r' = NoResult
    /\ attempt' = 0
    /\ requests' = 0 /\ responses' = <<>> /\ waits' = <<>>
    /\ UNCHANGED <<envVars, exitCode, listVars, i, batch, j, result, maxRetries,
                   inflight, lastData, providerContacted, dirRequests, dirStatus,
                   batchLog, batchOutcome, singleLog, pauses>>

\* line 186 resumes: the 600 ms timer fired, the for-of advances
Pause600Done ==
    /\ pc = "pause600"
    /\ sleepMs' = 0
    /\ j' = j + 1
    /\ pc' = "fallbackLoop"
    /\ UNCHANGED <<envVars, exitCode, listVars, countVars, i, batch, result, r,
                   maxRetries, attempt, inflight, requests, responses, lastData,
                   waits, providerContacted, histVars>>

\* lines 190-193: the end of the loop body
AfterBatch ==
    /\ pc = "afterBatch"
    /\ IF PauseBeforeNext(i, Len(allEmails))
       THEN /\ sleepMs' = BatchPauseMs
            /\ pauses' = pauses + 1
            /\ pc' = "pause1000"
            /\ UNCHANGED i
       ELSE /\ i' = NextIndex(i)
            /\ pc' = "loop"
            /\ UNCHANGED <<sleepMs, pauses>>
    /\ UNCHANGED <<envVars, exitCode, listVars, countVars, batch, j, result, r,
                   maxRetries, attempt, inflight, requests, responses, lastData,
                   waits, providerContacted, dirRequests, dirStatus, batchLog,
                   batchOutcome, singleLog, fallbackPauses>>

\* line 191 resumes: the 1000 ms timer fired, the loop advances
Pause1000Done ==
    /\ pc = "pause1000"
    /\ sleepMs' = 0
    /\ i' = NextIndex(i)
    /\ pc' = "loop"
    /\ UNCHANGED <<envVars, exitCode, listVars, countVars, batch, j, result, r,
                   maxRetries, attempt, inflight, requests, responses, lastData,
                   waits, providerContacted, histVars>>

\* fetchJson line 43 and main line 199: the request fails (req "error"), the
\* promise rejects, the rejection propagates through every await up to
\* main().catch, which exits with status 1
RequestFailed ==
    /\ pc \in {"fetchSubscribers", "batchWait", "singleWait"}
    /\ inflight' = inflight - 1
    /\ Exit(1)
    /\ UNCHANGED <<envVars, listVars, countVars, i, batch, j, result, r, maxRetries,
                   attempt, sleepMs, requests, responses, lastData, waits,
                   providerContacted, histVars>>

----------------------------------------------------------------------------
(* The run of the script *)

Next ==
    \/ ConfigMissing
    \/ TemplateMissing
    \/ MainStart
    \/ \E status \in DirectoryStatuses, data \in DirectoryLists :
           DirectoryResponse(status, data)
    \/ Loop
    \/ \E status \in ProviderStatuses, data \in Bodies : BatchResponse(status, data)
    \/ BatchBackoffDone
    \/ AfterSendBatch
    \/ FallbackLoop
    \/ \E status \in ProviderStatuses : SingleResponse(status)
    \/ SingleBackoffDone
    \/ AfterSendSingle
    \/ Pause600Done
    \/ AfterBatch
    \/ Pause1000Done
    \/ RequestFailed

Spec == Init /\ [][Next]_vars

----------------------------------------------------------------------------
(* The delivery client called directly, with any maxRetries *)

SampleBatch == <<[to |-> "a@b.co"], [to |-> "c@d.e"]>>

InitClient ==
    /\ env = [k \in RequiredEnv |-> TRUE]
    /\ templateExists = TRUE
    /\ pc = "caller"
    /\ InitCommon

\* line 61: sendBatch(emails, maxRetries) is entered
CallSendBatch(mr) ==
    /\ pc = "caller"
    /\ batch' = SampleBatch
    /\ maxRetries' = mr
    /\ SendBatchLoop(1, mr, 0)
    /\ UNCHANGED <<envVars, exitCode, listVars, countVars, i, j, r, sleepMs,
                   responses, lastData, waits, histVars>>

\* line 88: sendSingle(email, maxRetries) is entered
CallSendSingle(mr) ==
    /\ pc = "caller"
    /\ batch' = SubSeq(SampleBatch, 1, 1)
    /\ maxRetries' = mr
    /\ SendSingleLoop(1, mr, 0)
    /\ UNCHANGED <<envVars, exitCode, listVars, countVars, i, j, result, sleepMs,
                   responses, lastData, waits, histVars>>

\* fetchJson line 43: the request fails and the call throws to its caller
CallThrows ==
    /\ pc \in {"batchWait", "singleWait"}
    /\ inflight' = inflight - 1
    /\ pc' = IF pc = "batchWait" THEN "batchThrew" ELSE "singleThrew"
    /\ UNCHANGED <<envVars, exitCode, listVars, countVars, i, batch, j, result, r,
                   maxRetries, attempt, sleepMs, requests, responses, lastData,
                   waits, providerContacted, histVars>>

NextClient ==
    \/ \E mr \in 0..MaxRetriesBound : CallSendBatch(mr)
    \/ \E mr \in 0..MaxRetriesBound : CallSendSingle(mr)
    \/ \E status \in ProviderStatuses, data \in Bodies : BatchResponse(status, data)
    \/ BatchBackoffDone
    \/ \E status \in ProviderStatuses : SingleResponse(status)
    \/ SingleBackoffDone
    \/ CallThrows

SpecClient == InitClient /\ [][NextClient]_vars

----------------------------------------------------------------------------
(* Properties of the delivery client *)

Last(seq) == seq[Len(seq)]

InSendBatch == pc \in {"batchWait", "batchBackoff", "batchReturned", "batchThrew"}

InSendSingle == pc \in {"singleWait", "singleBackoff", "singleReturned", "singleThrew"}

\* The answers of the current call that were 429 with attempts remaining.
RetriedAnswers == {k \in 1..Len(responses) : responses[k] = 429 /\ k < maxRetries}

C1_State ==
    (InSendBatch /\ maxRetries >= 1) =>
        /\ requests <= maxRetries
        /\ Len(waits) = Cardinality(RetriedAnswers)
        /\ \A k \in 1..Len(waits) : waits[k] = k * 3000 /\ k \in RetriedAnswers
        /\ (pc = "batchBackoff") <=> (sleepMs # 0)
        /\ pc = "batchBackoff" =>
              /\ sleepMs = requests * 3000
              /\ Len(responses) = requests
              /\ requests \in RetriedAnswers
        /\ pc = "batchWait" => Len(responses) = requests - 1 /\ Len(waits) = requests - 1
        /\ (maxRetries = 3 /\ responses = <<429, 429, 200>>) =>
              /\ pc = "batchReturned"
              /\ result.success
              /\ requests = 3
              /\ waits = <<3000, 6000>>

C1_Step ==
    (pc \in {"batchWait", "batchBackoff"} /\ maxRetries >= 1) =>
        /\ (pc = "batchBackoff" /\ pc' # pc) =>
              pc' = "batchWait" /\ requests' = requests + 1 /\ sleepMs' = 0
        /\ requests' # requests => pc = "batchBackoff"
        /\ (pc = "batchWait" /\ Len(responses') = Len(responses) + 1
              /\ Last(responses') = 429 /\ requests < maxRetries) =>
              pc' = "batchBackoff" /\ sleepMs' = requests * 3000

\* C1: sendBatch with maxRetries = N >= 1: when request k < N is answered 429
\* the call sleeps exactly k * 3000 ms and then issues request k + 1; it
\* sleeps in no other situation and issues at most N requests; answers
\* 429, 429, 200 with N = 3 give success after three requests and the two
\* sleeps 3000 and 6000.
C1_BatchBackoff == [](C1_State) /\ [][C1_Step]_vars

C1_Witness ==
    /\ pc = "batchReturned"
    /\ maxRetries = 3
    /\ responses = <<429, 429, 200>>
    /\ waits = <<3000, 6000>>
    /\ requests = 3
    /\ result.success

\* C2: sendBatch returns success exactly when the last response it received
\* is 2xx; a response that is neither 2xx nor 429 is the last one of the call
\* (no sleep and no request follow it); a failure result carries the status
\* and the body of the last response received.
C2_BatchResult ==
    /\ (pc = "batchReturned" /\ responses # <<>>) =>
          /\ result.success <=> (Last(responses) >= 200 /\ Last(responses) <= 299)
          /\ ~result.success =>
                result.status = Last(responses) /\ result.data = lastData
    /\ InSendBatch =>
          \A k \in 1..Len(responses) :
              (responses[k] # 429 /\ ~(responses[k] >= 200 /\ responses[k] <= 299)) =>
                  /\ k = Len(responses)
                  /\ pc = "batchReturned"
                  /\ requests = k
                  /\ sleepMs = 0
                  /\ Len(waits) = k - 1

C2_Witness ==
    /\ pc = "batchReturned"
    /\ responses = <<429, 500>>
    /\ ~result.success
    /\ result.status = 500
    /\ result.data = "body-B"

\* C3: when every one of the maxRetries >= 1 requests of sendBatch was
\* answered 429, the call fails with status 429 and the sentinel body
\* "Max retries exceeded".
C3_SentinelOnExhaustion ==
    (/\ pc = "batchReturned"
     /\ maxRetries >= 1
     /\ Len(responses) = maxRetries
     /\ \A k \in 1..Len(responses) : responses[k] = 429) =>
        /\ ~result.success
        /\ result.status = 429
        /\ result.data = MaxRetriesSentinel

C4_State ==
    (InSendSingle /\ maxRetries >= 1) =>
        /\ requests <= maxRetries
        /\ Len(waits) = Cardinality(RetriedAnswers)
        /\ \A k \in 1..Len(waits) : waits[k] = k * 2000 /\ k \in RetriedAnswers
        /\ (pc = "singleBackoff") <=> (sleepMs # 0)
        /\ pc = "singleBackoff" =>
              /\ sleepMs = requests * 2000
              /\ Len(responses) = requests
              /\ requests \in RetriedAnswers
        /\ pc = "singleWait" => Len(responses) = requests - 1 /\ Len(waits) = requests - 1
        /\ pc = "singleReturned" =>
              /\ responses # <<>>
              /\ requests = Len(responses)
              /\ r.success <=> (Last(responses) >= 200 /\ Last(responses) <= 299)
              /\ r.success => r = [success |-> TRUE]
              /\ ~r.success => r = [success |-> FALSE, status |-> Last(responses)]

C4_Step ==
    (pc \in {"singleWait", "singleBackoff"} /\ maxRetries >= 1) =>
        /\ (pc = "singleBackoff" /\ pc' # pc) =>
              pc' = "singleWait" /\ requests' = requests + 1 /\ sleepMs' = 0
        /\ requests' # requests => pc = "singleBackoff"

\* C4: sendSingle with maxRetries = N >= 1 issues at most N requests, issues
\* request k + 1 only after request k < N was answered 429 and after sleeping
\* exactly k * 2000 ms, returns the bare success flag exactly when the last
\* response is 2xx and otherwise fails with the status of the last response.
C4_SingleContract == [](C4_State) /\ [][C4_Step]_vars

C4_Witness ==
    /\ pc = "singleReturned"
    /\ maxRetries = 3
    /\ responses = <<429, 429, 500>>
    /\ waits = <<2000, 4000>>
    /\ r = [success |-> FALSE, status |-> 500]

----------------------------------------------------------------------------
(* Properties of the delivery loop *)

CeilDiv(n, d) == (n + d - 1) \div d

\* The 1-based positions in the message list of the b-th batch of n messages.
BatchPositions(b, n) == ((b - 1) * 50 + 1) .. Min(b * 50, n)

RECURSIVE Flatten(_)
Flatten(seqs) ==
    IF seqs = <<>> THEN <<>>
    ELSE Flatten(SubSeq(seqs, 1, Len(seqs) - 1)) \o Last(seqs)

\* The positions sendSingle has to be called for, in order, when the batches
\* had the given outcomes: those of the failed batches.
RECURSIVE ExpectedSingles(_, _)
ExpectedSingles(outcomes, n) ==
    IF outcomes = <<>> THEN <<>>
    ELSE LET b == Len(outcomes)
             front == ExpectedSingles(SubSeq(outcomes, 1, b - 1), n)
             size == Min(b * 50, n) - (b - 1) * 50
         IN IF outcomes[b] THEN front
            ELSE front \o [k \in 1..size |-> (b - 1) * 50 + k]

\* The number of messages in the first b batches of n messages.
ProcessedCount(b, n) == Min(b * 50, n)

IsPrefix(a, b) == Len(a) <= Len(b) /\ SubSeq(b, 1, Len(a)) = a

\* The current batch has been dealt with, or the process has ended.
BatchSettled == pc \in {"afterBatch", "pause1000", "loop", "exited"}

\* C5: for every batch whose sendBatch failed, sendSingle is called exactly
\* once for each message of the batch, in batch order, each call counted in
\* sent or in failed; it is never called for a message of a batch whose
\* sendBatch succeeded.
C5_FallbackComplete ==
    LET n == Len(allEmails)
        expected == ExpectedSingles(batchOutcome, n)
    IN /\ IsPrefix(singleLog, expected)
       /\ BatchSettled =>
             /\ singleLog = expected
             /\ sent + failed = ProcessedCount(Len(batchOutcome), n)
             /\ failed <= Len(singleLog)

C6_State ==
    \A b \in 1..Len(batchOutcome) :
        batchOutcome[b] =>
            \A k \in 1..Len(singleLog) : singleLog[k] \notin BatchPositions(b, Len(allEmails))

C6_Step ==
    /\ (pc = "batchReturned" /\ result.success /\ pc' # pc) =>
          /\ sent' = sent + Len(Last(batchLog))
          /\ failed' = failed
          /\ singleLog' = singleLog
          /\ pc' = "afterBatch"
    /\ pc \in {"batchWait", "batchBackoff", "afterBatch", "pause1000"} =>
          sent' = sent /\ failed' = failed /\ singleLog' = singleLog

\* C6: when sendBatch succeeds for a batch, processing the batch adds exactly
\* the batch's size to sent, leaves failed unchanged and makes no sendSingle
\* call for any message of the batch.
C6_BatchSuccess == [](C6_State) /\ [][C6_Step]_vars

C6_Witness ==
    /\ pc = "afterBatch"
    /\ batchOutcome = <<TRUE, FALSE, TRUE>>
    /\ Len(Last(batchLog)) = 20
    /\ failed = 50
    /\ sent = 70

\* C7: for n >= 1 messages the batches passed to sendBatch are ceil(n / 50)
\* in number, each non-empty and of size at most 50, all but the last of
\* size 50, and their concatenation is the message list.
C7_Partition ==
    (pc = "exited" /\ Len(allEmails) >= 1) =>
        /\ Len(batchLog) = CeilDiv(Len(allEmails), 50)
        /\ \A b \in 1..Len(batchLog) :
              /\ Len(batchLog[b]) >= 1
              /\ Len(batchLog[b]) <= 50
              /\ b < Len(batchLog) => Len(batchLog[b]) = 50
        /\ Flatten(batchLog) = allEmails

\* C8: a run that reached delivery ends with a non-zero status exactly when
\* the final failed count is greater than 0.
C8_ExitStatus ==
    (pc = "exited" /\ Len(allEmails) >= 1) =>
        ((exitCode # 0) <=> (failed > 0))

\* C9: once the first provider request was issued nothing aborts the run:
\* at termination every message has been part of a provider request, and
\* status 1 is produced only after the last batch was processed.
C9_NoAbort ==
    (pc = "exited" /\ providerContacted) =>
        /\ \A k \in 1..Len(allEmails) : k <= Len(Flatten(batchLog))
        /\ exitCode = 1 =>
              /\ Len(batchOutcome) = CeilDiv(Len(allEmails), 50)
              /\ ~MoreBatches(i, Len(allEmails))

\* C10: when the directory answers with a status other than 200 the run has
\* ended with status 1, after exactly one directory request and without any
\* request to the provider.
C10_DirectoryFatal ==
    dirStatus \notin {0, 200} =>
        /\ pc = "exited"
        /\ exitCode = 1
        /\ dirRequests = 1
        /\ ~providerContacted
        /\ inflight = 0
        /\ batchLog = <<>>
        /\ singleLog = <<>>

C10_Witness ==
    /\ dirStatus = 500
    /\ pc = "exited"
    /\ exitCode = 1
    /\ dirRequests = 1

----------------------------------------------------------------------------
(* Properties of the run controller *)

SomeConfigMissing == \E k \in RequiredEnv : ~env[k]

NoNetworkUse ==
    /\ dirRequests = 0
    /\ ~providerContacted
    /\ inflight = 0
    /\ batchLog = <<>>
    /\ singleLog = <<>>

\* C11: when the directory answers 200 and no subscriber has a valid address
\* (an empty list included) the run has ended with status 0 and no request
\* was issued to the provider.
C11_NoValidSubscribers ==
    (/\ dirStatus = 200
     /\ \A k \in 1..Len(allSubscribers) : ~isValidEmail(allSubscribers[k].email)) =>
        /\ pc = "exited"
        /\ exitCode = 0
        /\ ~providerContacted
        /\ inflight = 0
        /\ batchLog = <<>>
        /\ singleLog = <<>>

C11_Witness ==
    /\ dirStatus = 200
    /\ Len(allSubscribers) = 2
    /\ valid = <<>>
    /\ pc = "exited"
    /\ exitCode = 0

\* C12: when a required configuration value is absent the run is skipped:
\* its only step ends it with status 0, and no request is ever issued,
\* whether or not the template exists.
C12_ConfigMissingSkips ==
    SomeConfigMissing =>
        /\ pc \in {"boot", "exited"}
        /\ pc = "boot" => ENABLED ConfigMissing
        /\ pc = "exited" => exitCode = 0
        /\ NoNetworkUse

C12_Witness ==
    /\ pc = "exited"
    /\ exitCode = 0
    /\ ~env["WORKER_SECRET"]
    /\ ~templateExists
    /\ dirRequests = 0

\* C13: when the configuration is complete and the template file is absent
\* the run is fatal: its only step ends it with status 1, and no request is
\* ever issued.
C13_TemplateMissingFatal ==
    (~SomeConfigMissing /\ ~templateExists) =>
        /\ pc \in {"boot", "exited"}
        /\ pc = "boot" => ENABLED TemplateMissing
        /\ pc = "exited" => exitCode = 1
        /\ NoNetworkUse

C13_Witness ==
    /\ pc = "exited"
    /\ exitCode = 1
    /\ ~templateExists
    /\ ~SomeConfigMissing
    /\ ~providerContacted

\* C14 as stated: whichever precondition is missing (a configuration value
\* or the template), the run ends with status 0.
C14_AllPreconditionsSkip ==
    ((SomeConfigMissing \/ ~templateExists) /\ pc = "exited") => exitCode = 0

\* C14 amended: a missing precondition ends the run before any network call;
\* a missing configuration value ends it with status 0, a missing template
\* (configuration complete) with status 1.
C14_PreconditionOutcome ==
    /\ (SomeConfigMissing \/ ~templateExists) => NoNetworkUse
    /\ (pc = "exited" /\ dirRequests = 0) =>
          \/ SomeConfigMissing /\ exitCode = 0
          \/ ~SomeConfigMissing /\ ~templateExists /\ exitCode = 1

C14_Witness ==
    /\ pc = "exited"
    /\ dirRequests = 0
    /\ inflight = 0
    /\ \A k \in RequiredEnv : env[k]
    /\ ~templateExists
    /\ exitCode = 1

\* The positions of a directory answer that hold a valid address.
ValidPositions(subs) == {k \in 1..Len(subs) : isValidEmail(subs[k].email)}

\* The counters never exceed the number of messages, and a run that exits 1
\* after a 200 answer of the directory does so in delivery.
C15_State ==
    /\ sent + failed <= Len(allEmails)
    /\ Len(allEmails) <= Len(valid)
    /\ (pc = "exited" /\ exitCode = 1 /\ dirStatus = 200) =>
          /\ providerContacted
          /\ failed > 0 \/ MoreBatches(i, Len(allEmails))

\* The message list is built from the valid subscribers only and never
\* changes; every request body is taken from it.
C15_Step ==
    /\ (pc = "fetchSubscribers" /\ dirStatus' = 200) =>
          LET vp == ValidPositions(allSubscribers')
          IN /\ Len(valid') = Cardinality(vp)
             /\ pc' # "exited" => Len(allEmails') = Cardinality(vp)
             /\ \A k \in 1..Len(allEmails') :
                   /\ isValidEmail(allEmails'[k].to)
                   /\ \E q \in vp : allSubscribers'[q].email = allEmails'[k].to
    /\ pc # "fetchSubscribers" => UNCHANGED <<allSubscribers, valid, allEmails>>
    /\ (pc # "caller" /\ Len(batchLog') > Len(batchLog)) =>
          /\ batchLog' = Append(batchLog, batch')
          /\ \A m \in 1..Len(batch') : batch'[m] = allEmails[i + m]
    /\ (pc # "caller" /\ Len(singleLog') > Len(singleLog)) =>
          /\ singleLog' = Append(singleLog, i + j + 1)
          /\ i + j + 1 \in 1..Len(allEmails)
          /\ batch[j + 1] = allEmails[i + j + 1]
    /\ (pc # "caller" /\ providerContacted' /\ ~providerContacted) =>
          Len(batchLog') > Len(batchLog)
    /\ (pc # "caller" /\ requests' > requests) =>
          pc' \in {"batchWait", "singleWait"}

\* C15: every message of every provider request (batch or single) is
\* addressed to a subscriber of the directory's answer whose address is
\* valid; subscribers with an invalid address are in no request and in none
\* of sent, failed and the reported total; their presence alone never makes
\* the run exit 1.
C15_OnlyValidRecipients == [](C15_State) /\ [][C15_Step]_vars

C15_Witness ==
    /\ pc = "exited"
    /\ exitCode = 0
    /\ Len(allSubscribers) = 2
    /\ allSubscribers[1].email = "user@nodot"
    /\ Len(valid) = 1
    /\ sent = 1
    /\ failed = 0

\* C16: at most one request (directory, batch or single) is in flight; one
\* is in flight only while the thread awaits its answer, and never while a
\* backoff sleep or a pause is pending.
C16_OneInFlight ==
    /\ inflight \in {0, 1}
    /\ (inflight = 1) <=> (pc \in {"fetchSubscribers", "batchWait", "singleWait"})
    /\ (sleepMs # 0) <=> (pc \in {"batchBackoff", "singleBackoff", "pause600", "pause1000"})
    /\ inflight = 1 => sleepMs = 0

C16_Witness ==
    /\ pc = "singleWait"
    /\ inflight = 1
    /\ requests = 2
    /\ waits = <<2000>>
    /\ sleepMs = 0
    /\ fallbackPauses = 1

\* A provider request is issued by this step.
IssuesProviderRequest ==
    /\ pc # "caller"
    /\ inflight' = inflight + 1
    /\ pc' \in {"batchWait", "singleWait"}

\* While a single send is running its pause is still due; everywhere else in
\* the delivery every single send made so far has had its pause. A 600 ms
\* timer is pending exactly in the pause after a single send.
C17_State ==
    /\ pc \in {"singleWait", "singleBackoff", "singleReturned"} =>
          fallbackPauses = Len(singleLog) - 1
    /\ pc \in {"loop", "batchWait", "batchBackoff", "batchReturned", "fallbackLoop",
               "pause600", "afterBatch", "pause1000"} =>
          fallbackPauses = Len(singleLog)
    /\ (pc = "pause600") <=> (sleepMs = FallbackPauseMs)

\* The return of sendSingle, whatever its result, starts one 600 ms pause;
\* the pause ends before anything else happens; a request is issued only
\* when every earlier single send has had its pause; the pause is taken
\* nowhere else, so never in a batch whose sendBatch succeeded.
C17_Step ==
    /\ (pc = "singleReturned" /\ pc' # pc) =>
          /\ pc' = "pause600"
          /\ sleepMs' = FallbackPauseMs
          /\ fallbackPauses' = fallbackPauses + 1
    /\ (pc = "pause600" /\ pc' # pc) =>
          /\ sleepMs' = 0
          /\ inflight' = inflight
          /\ fallbackPauses' = fallbackPauses
    /\ IssuesProviderRequest =>
          fallbackPauses' =
              IF pc = "singleBackoff" THEN Len(singleLog') - 1
              ELSE IF pc' = "singleWait" THEN Len(singleLog)
              ELSE Len(singleLog')
    /\ fallbackPauses' # fallbackPauses =>
          /\ pc = "singleReturned"
          /\ batchOutcome # <<>>
          /\ ~Last(batchOutcome)
    /\ (pc = "batchReturned" /\ result.success /\ pc' # pc) =>
          /\ pc' = "afterBatch"
          /\ sleepMs' = 0

\* C17: in the fallback every sendSingle call, successful or not and also
\* the one for the last message of the batch, is followed by exactly one
\* 600 ms pause before any further provider request; a batch whose sendBatch
\* succeeded has no 600 ms pause.
C17_FallbackPause == [](C17_State) /\ [][C17_Step]_vars

C17_Witness ==
    /\ pc = "afterBatch"
    /\ Len(batch) = 1
    /\ batchOutcome = <<FALSE>>
    /\ singleLog = <<1>>
    /\ failed = 1
    /\ fallbackPauses = 1
    /\ sleepMs = 0

\* C18: one 1000 ms pause lies between the end of a batch and the first
\* request of the next one and none follows the last batch, so a run over
\* n >= 1 messages has made exactly ceil(n / 50) - 1 of these pauses when it
\* ends, whatever the batches' outcomes.
C18_InterBatchPauses ==
    /\ (pc = "pause1000") <=> (sleepMs = BatchPauseMs)
    /\ pc \in {"batchWait", "batchBackoff", "batchReturned", "fallbackLoop",
               "singleWait", "singleBackoff", "singleReturned", "pause600",
               "afterBatch"} =>
          pauses = Len(batchLog) - 1
    /\ (pc = "exited" /\ Len(allEmails) >= 1) =>
          pauses = CeilDiv(Len(allEmails), BATCH_SIZE) - 1

\* The final summary of line 195 has been printed.
SummaryReached ==
    /\ pc = "exited"
    /\ dirStatus = DirectoryOK
    /\ Len(allEmails) >= 1
    /\ ~MoreBatches(i, Len(allEmails))

\* The number of messages counted so far, by the position of the run: the
\* batches before index i, and inside a fallback the messages before j (and
\* message j during its pause).
C19_State ==
    /\ pc \in {"batchWait", "batchBackoff", "batchReturned"} => sent + failed = i
    /\ pc \in {"fallbackLoop", "singleWait", "singleBackoff", "singleReturned"} =>
          sent + failed = i + j
    /\ pc = "pause600" => sent + failed = i + j + 1
    /\ pc \in {"afterBatch", "pause1000"} =>
          /\ sent + failed = i + Len(batch)
          /\ sent + failed = ProcessedCount(Len(batchOutcome), Len(allEmails))
    /\ pc = "loop" =>
          sent + failed = ProcessedCount(Len(batchOutcome), Len(allEmails))
    /\ SummaryReached =>
          /\ Len(batchOutcome) = CeilDiv(Len(allEmails), BATCH_SIZE)
          /\ sent + failed = Len(valid)

\* The counters change only when a call returns: a successful batch adds its
\* length to sent, a single send adds one to exactly one of the two.
C19_Step ==
    /\ (pc = "batchReturned" /\ pc' # pc) =>
          /\ failed' = failed
          /\ sent' = IF result.success THEN sent + Len(batch) ELSE sent
    /\ (pc = "singleReturned" /\ pc' # pc) =>
          \/ sent' = sent + 1 /\ failed' = failed /\ r.success
          \/ sent' = sent /\ failed' = failed + 1 /\ ~r.success
    /\ (pc \notin {"batchReturned", "singleReturned", "caller"}) =>
          sent' = sent /\ failed' = failed

\* C19: after each fully processed batch sent + failed is the number of
\* messages of the batches processed so far, each message counted once, as
\* sent or as failed; when the run reaches its final summary sent + failed
\* is the number of valid subscribers, the total it reports.
C19_Accounting == [](C19_State) /\ [][C19_Step]_vars

C19_Witness ==
    /\ SummaryReached
    /\ Len(valid) = 51
    /\ batchOutcome = <<TRUE, FALSE>>
    /\ sent = 50
    /\ failed = 1
    /\ exitCode = 1

\* The steps one call of a send takes at most from the await of its request
\* number att to its return, and from the backoff after that request.
WaitRank(att) == 2 * (DefaultMaxRetries - att) + 1
BackoffRank(att) == 2 * (DefaultMaxRetries - att)

\* The steps one message of a fallback takes at most: the call of sendSingle,
\* its requests and backoffs, its return and the 600 ms pause.
MessageRank == 2 * DefaultMaxRetries + 2

\* The steps one batch takes at most besides its fallback messages: the call
\* of sendBatch, its requests and backoffs, its return, the end of the
\* fallback, the end of the loop body and the 1000 ms pause.
BatchRank == 2 * DefaultMaxRetries + 4

\* The steps left at most when the loop condition is evaluated at index idx.
LoopRank(idx) ==
    LET rest == IF idx < Len(allEmails) THEN Len(allEmails) - idx ELSE 0
    IN  1 + rest * MessageRank + CeilDiv(rest, BATCH_SIZE) * BatchRank

\* The largest LoopRank(0) of a run.
TopRank == 1 + MaxSubscribers * MessageRank + CeilDiv(MaxSubscribers, BATCH_SIZE) * BatchRank

\* A bound on the number of steps the run can still take: a variant that
\* every step decreases.
Rank ==
    LET after == LoopRank(i + BATCH_SIZE) + 2
        fallback(k) == after + 1 + (Len(batch) - k) * MessageRank
        returned == fallback(0) + 1
    IN  CASE pc = "boot" -> TopRank + 2
          [] pc = "fetchSubscribers" -> TopRank + 1
          [] pc = "loop" -> LoopRank(i)
          [] pc = "batchWait" -> returned + WaitRank(attempt)
          [] pc = "batchBackoff" -> returned + BackoffRank(attempt)
          [] pc = "batchReturned" -> returned
          [] pc = "fallbackLoop" -> fallback(j)
          [] pc = "singleWait" -> fallback(j + 1) + 2 + WaitRank(attempt)
          [] pc = "singleBackoff" -> fallback(j + 1) + 2 + BackoffRank(attempt)
          [] pc = "singleReturned" -> fallback(j + 1) + 2
          [] pc = "pause600" -> fallback(j + 1) + 1
          [] pc = "afterBatch" -> after
          [] pc = "pause1000" -> after - 1
          [] OTHER -> 0

\* A run that has not ended can take a step; a call has issued at most
\* DefaultMaxRetries requests; there are at most ceil(n / 50) calls of
\* sendBatch, the k-th over the k-th block of 50 messages, and at most n
\* calls of sendSingle.
C20_State ==
    /\ Rank >= 0
    /\ pc # "exited" => ENABLED Next
    /\ requests <= DefaultMaxRetries
    /\ Len(batchLog) <= CeilDiv(Len(allEmails), BATCH_SIZE)
    /\ Len(batchOutcome) <= Len(batchLog)
    /\ Len(singleLog) <= Len(allEmails)
    /\ pc \in {"batchWait", "batchBackoff", "batchReturned"} =>
          /\ i = BATCH_SIZE * (Len(batchLog) - 1)
          /\ Len(batchOutcome) = Len(batchLog) - 1
    /\ pc \in {"singleWait", "singleBackoff", "singleReturned"} =>
          /\ Last(singleLog) = i + j + 1
          /\ Last(singleLog) \in BatchPositions(Len(batchLog), Len(allEmails))
          /\ Len(batchOutcome) = Len(batchLog)
          /\ ~Last(batchOutcome)

\* Every step decreases the variant; a call of sendBatch is for the next
\* block; a call of sendSingle is for a message after every message sent
\* singly before, in a batch whose sendBatch failed; requests are issued one
\* at a time.
C20_Step ==
    /\ Rank' < Rank
    /\ batchLog' # batchLog =>
          /\ Len(batchLog') = Len(batchLog) + 1
          /\ i = BATCH_SIZE * Len(batchLog)
    /\ singleLog' # singleLog =>
          /\ Len(singleLog') = Len(singleLog) + 1
          /\ singleLog # <<>> => Last(singleLog) < Last(singleLog')
          /\ batchOutcome # <<>> /\ ~Last(batchOutcome)
    /\ requests' > requests =>
          /\ requests' = requests + 1
          /\ inflight' = inflight + 1

\* C20: every run terminates when every request is answered; over n valid
\* messages it issues at most 3 * ceil(n / 50) batch requests and at most
\* 3 * n single requests, a single request for a message only after the
\* failure of its batch, and no message is in more than 3 batch requests and
\* 3 single requests.
C20_Termination == [](C20_State) /\ [][C20_Step]_vars

C20_Witness ==
    /\ pc = "exited"
    /\ Rank = 0
    /\ Len(allEmails) = BATCH_SIZE + 1
    /\ batchOutcome = <<FALSE, FALSE>>
    /\ Len(singleLog) = BATCH_SIZE + 1
    /\ failed = BATCH_SIZE + 1
    /\ exitCode = 1

====
